---- MODULE Spec2Model ----
(***************************************************************************)
(* Model of src/src/lib.rs: SerializableLogRecord, the owned mirror of a   *)
(* log::Record, its constructors (new, From<&Record>), the severity parser *)
(* string_to_level and the rehydration macro into_log_record!.             *)
(*                                                                         *)
(* Strings are sequences of one-character strings, so that the ASCII case  *)
(* folding of Level::from_str can be computed.  Option<T> is a sequence of *)
(* length 0 (None) or 1 (Some).  fmt::Arguments is the sequence of the     *)
(* fragments (literal pieces and displayed arguments) it formats in order. *)
(***************************************************************************)
EXTENDS Naturals, Sequences, FiniteSets

VARIABLES record, snap, origin, builder, given, out

vars == <<record, snap, origin, builder, given, out>>

\* Largest line number a handle or a decoded snapshot carries.
MaxLine == 1

----------------------------------------------------------------------------
\* Option<T>

None == <<>>

Some(x) == <<x>>

IsSome(o) == Len(o) = 1

\* str::to_owned: the owned copy holds the same characters.
to_owned(s) == [i \in 1..Len(s) |-> s[i]]

\* Option::map(str::to_owned)
map_to_owned(o) == [i \in DOMAIN o |-> to_owned(o[i])]

\* Option<String>::as_deref
as_deref(o) == [i \in DOMAIN o |-> o[i]]

----------------------------------------------------------------------------
\* log::Level and its string forms

Levels == {"Error", "Warn", "Info", "Debug", "Trace"}

\* Level as usize (Error = 1 .. Trace = 5)
LevelUsize(l) ==
    CASE l = "Error" -> 1
      [] l = "Warn"  -> 2
      [] l = "Info"  -> 3
      [] l = "Debug" -> 4
      [] l = "Trace" -> 5

from_usize(u) == CHOOSE l \in Levels : LevelUsize(l) = u

\* The table Level::as_str and Level::from_str share; index 0 is "OFF".
LOG_LEVEL_NAMES ==
    << <<"O","F","F">>,
       <<"E","R","R","O","R">>,
       <<"W","A","R","N">>,
       <<"I","N","F","O">>,
       <<"D","E","B","U","G">>,
       <<"T","R","A","C","E">> >>

UpperChars == <<"A","B","C","D","E","F","G","H","I","J","K","L","M",
                "N","O","P","Q","R","S","T","U","V","W","X","Y","Z">>

LowerChars == <<"a","b","c","d","e","f","g","h","i","j","k","l","m",
                "n","o","p","q","r","s","t","u","v","w","x","y","z">>

to_ascii_lowercase(c) ==
    IF \E i \in DOMAIN UpperChars : UpperChars[i] = c
    THEN LowerChars[CHOOSE i \in DOMAIN UpperChars : UpperChars[i] = c]
    ELSE c

eq_ignore_ascii_case(a, b) ==
    /\ Len(a) = Len(b)
    /\ \A i \in 1..Len(a) : to_ascii_lowercase(a[i]) = to_ascii_lowercase(b[i])

\* A mutant of as_str: the label in lower case.
as_str_lower(l) ==
    [i \in 1..Len(LOG_LEVEL_NAMES[LevelUsize(l) + 1]) |->
        to_ascii_lowercase(LOG_LEVEL_NAMES[LevelUsize(l) + 1][i])]

\* Level::as_str
as_str(l) == LOG_LEVEL_NAMES[LevelUsize(l) + 1]

\* Level::from_str: the position of the first name equal to the input up to
\* ASCII case, position 0 ("OFF") filtered out; None stands for Err.
from_str(s) ==
    LET hits == {i \in 0..5 : eq_ignore_ascii_case(LOG_LEVEL_NAMES[i + 1], s)}
        pos  == IF hits = {} THEN None
                ELSE Some(CHOOSE i \in hits : \A j \in hits : i <= j)
    IN  IF IsSome(pos) /\ pos[1] # 0 THEN Some(from_usize(pos[1])) ELSE None

\* Mutants of string_to_level: another fallback severity, and a parser that
\* accepts nothing.
string_to_level_error(level) ==
    IF IsSome(from_str(level)) THEN from_str(level)[1] ELSE "Error"

string_to_level_always(level) == "Warn"

\* SerializableLogRecord::string_to_level
string_to_level(level) ==
    IF IsSome(from_str(level)) THEN from_str(level)[1] ELSE "Warn"

----------------------------------------------------------------------------
\* fmt::Arguments

RECURSIVE Format(_)
\* Arguments::to_string: the fragments written in order.
Format(a) == IF a = <<>> THEN <<>> ELSE Head(a) \o Format(Tail(a))

\* A mutant: "{:?}" in place of "{}", the text written quoted.
format_args_debug(s) == << <<"\"">>, s, <<"\"">> >>

\* format_args!("{}", s): an empty literal piece, then s displayed.
format_args(s) == << <<>>, s >>

----------------------------------------------------------------------------
\* SerializableLogRecord

NewLowerLevel(level, args, target, module_path, file, line) ==
    [level |-> as_str_lower(level), args |-> args, target |-> target,
     module_path |-> module_path, file |-> file, line |-> line]

\* SerializableLogRecord::new
New(level, args, target, module_path, file, line) ==
    [level       |-> to_owned(as_str(level)),
     args        |-> args,
     target      |-> target,
     module_path |-> module_path,
     file        |-> file,
     line        |-> line]

\* Mutants of From<&Record>: file taken from the module path; the line dropped.
FromSwapped(r) ==
    New(r.level, Format(r.args), to_owned(r.target),
        map_to_owned(r.module_path), map_to_owned(r.module_path), r.line)

FromNoLine(r) ==
    New(r.level, Format(r.args), to_owned(r.target),
        map_to_owned(r.module_path), map_to_owned(r.file), None)

\* impl From<&Record> for SerializableLogRecord
From(r) ==
    New(r.level,
        Format(r.args),
        to_owned(r.target),
        map_to_owned(r.module_path),
        map_to_owned(r.file),
        r.line)

\* derive(PartialEq, Eq): field by field, in declaration order.
SnapEq(a, b) ==
    /\ a.level = b.level
    /\ a.args = b.args
    /\ a.target = b.target
    /\ a.module_path = b.module_path
    /\ a.file = b.file
    /\ a.line = b.line

\* What Hash for str feeds a hasher: the bytes, then the 0xff terminator.
HashStr(s) == s \o <<"0xff">>

\* What Hash for Option<String> feeds: the discriminant, then the value.
HashOptStr(o) == IF IsSome(o) THEN <<"1">> \o HashStr(o[1]) ELSE <<"0">>

\* What Hash for Option<u32> feeds.
HashOptU32(o) == IF IsSome(o) THEN <<"1", o[1]>> ELSE <<"0">>

\* derive(Hash): every field, in declaration order.  TLC compares only
\* sequences of one element type, so the line's feed is kept as a second
\* component.
HashFeed(s) ==
    << HashStr(s.level) \o HashStr(s.args) \o HashStr(s.target)
         \o HashOptStr(s.module_path) \o HashOptStr(s.file),
       HashOptU32(s.line) >>

----------------------------------------------------------------------------
\* log::RecordBuilder and into_log_record!

\* Record::builder(): the defaults of RecordBuilder::new.
RecordBuilderNew ==
    [level |-> "Info", args |-> << <<>> >>, target |-> <<>>,
     module_path |-> None, file |-> None, line |-> None]

\* Mutants of the macro: the .module_path(..) call left out, so the builder
\* keeps what an earlier use set; the .target(..) call left out.
into_log_record_no_module_path(b, message) ==
    [level       |-> string_to_level(message.level),
     args        |-> format_args(message.args),
     target      |-> message.target,
     module_path |-> b.module_path,
     file        |-> as_deref(message.file),
     line        |-> message.line]

into_log_record_no_target(b, message) ==
    [level       |-> string_to_level(message.level),
     args        |-> format_args(message.args),
     target      |-> b.target,
     module_path |-> as_deref(message.module_path),
     file        |-> as_deref(message.file),
     line        |-> message.line]

\* into_log_record!(builder, message): the builder after the six setters; each
\* setter overwrites one field of the builder's record, build() copies it.
into_log_record(b, message) ==
    LET b1 == [b  EXCEPT !.level       = string_to_level(message.level)]
        b2 == [b1 EXCEPT !.args        = format_args(message.args)]
        b3 == [b2 EXCEPT !.target      = message.target]
        b4 == [b3 EXCEPT !.module_path = as_deref(message.module_path)]
        b5 == [b4 EXCEPT !.file        = as_deref(message.file)]
        b6 == [b5 EXCEPT !.line        = message.line]
    IN  b6

\* RecordBuilder::build
build(b) == b

----------------------------------------------------------------------------
\* The inputs

Hello == <<"H","e","l","l","o">>

\* format_args!("Hello"), format_args!("Hel{}", "lo"), format_args!("{}{}",
\* "lo", "Hel"), format_args!("")
ArgumentsSet ==
    { <<Hello>>,
      << <<"H","e","l">>, <<"l","o">> >>,
      << <<>>, <<"l","o">>, <<"H","e","l">> >>,
      << <<>> >> }

MessageTexts == {Format(a) : a \in ArgumentsSet}

Targets == { <<"a","p","p">>, <<>> }

ModulePaths == { <<"a","p","p">>, <<"m">> }

Files == { <<"l","i","b",".","r","s">>, <<"m">> }

Lines == 0..MaxLine

Opt(S) == {None} \cup {Some(x) : x \in S}

\* The transient handles a sink is handed.
Records ==
    [level : Levels, args : ArgumentsSet, target : Targets,
     module_path : Opt(ModulePaths), file : Opt(Files), line : Opt(Lines)]

\* What a level field can hold after assignment or decoding.
LevelStrings ==
    { LOG_LEVEL_NAMES[i] : i \in 2..6 } \cup
    { <<"i","n","f","o">>,
      <<"e","r","r","o","r">>,
      <<"W","a","r","n">>,
      <<"d","E","b","U","g">>,
      <<"t","r","a","c","e">>,
      <<>>,
      <<"O","F","F">>,
      <<"o","f","f">>,
      <<"W","A","R","N","I","N","G">>,
      <<"I","N","F">>,
      <<"I","N","F","O"," ">>,
      <<"I","N","F","\\u00D6">>,
      <<"3">> }

\* Every value of the struct the decoders can produce.
Snapshots ==
    [level : LevelStrings, args : MessageTexts, target : Targets,
     module_path : Opt(ModulePaths), file : Opt(Files), line : Opt(Lines)]

\* Builders left as an earlier use set them.
UsedBuilders ==
    { [level |-> "Error", args |-> format_args(<<"o","l","d">>),
       target |-> <<"o","l","d">>, module_path |-> Some(<<"o","l","d">>),
       file |-> Some(<<"o","l","d",".","r","s">>), line |-> Some(MaxLine)],
      [level |-> "Trace", args |-> format_args(<<>>),
       target |-> <<"a","p","p">>, module_path |-> Some(<<"m">>),
       file |-> None, line |-> Some(0)],
      [level |-> "Warn", args |-> format_args(Hello),
       target |-> <<>>, module_path |-> None,
       file |-> Some(<<"m">>), line |-> None] }

Fields == {"level", "args", "target", "module_path", "file", "line"}

FieldValues(f) ==
    CASE f = "level"       -> LevelStrings
      [] f = "args"        -> MessageTexts
      [] f = "target"      -> Targets
      [] f = "module_path" -> Opt(ModulePaths)
      [] f = "file"        -> Opt(Files)
      [] f = "line"        -> Opt(Lines)

----------------------------------------------------------------------------
\* The state machine.  record: the handle the sink was handed, while its log
\* call lasts.  snap: the snapshot.  origin: how snap got its current value.
\* builder: the RecordBuilder the macro is given.  given: the state that
\* builder was in when the macro received it.  out: the rehydrated handle,
\* which lives only until the sink call it is an argument of has returned.

\* The shape of the state: the handles carry Arguments of any fragments, the
\* snapshot owned strings.
TypeOK ==
    /\ \A r \in {record, out} : IsSome(r) =>
          /\ r[1].level \in Levels
          /\ r[1].module_path \in Opt(ModulePaths)
          /\ r[1].file \in Opt(Files)
          /\ r[1].line \in Opt(Lines)
    /\ IsSome(snap) =>
          /\ snap[1].level \in LevelStrings
          /\ snap[1].args \in MessageTexts
          /\ snap[1].target \in Targets
          /\ snap[1].module_path \in Opt(ModulePaths)
          /\ snap[1].file \in Opt(Files)
          /\ snap[1].line \in Opt(Lines)
    /\ origin \in {"none", "from", "deserialized", "assigned", "resnapshot"}
    /\ IsSome(out) <=> IsSome(given)
    /\ IsSome(out) => IsSome(snap) /\ builder = out[1]
    /\ out = None => builder \in UsedBuilders \cup {RecordBuilderNew}

Init ==
    /\ record \in Opt(Records)
    /\ snap = None
    /\ origin = "none"
    /\ builder = RecordBuilderNew
    /\ given = None
    /\ out = None

\* SerializableLogRecord::from(&record) inside the sink's log call.
FromRecord ==
    /\ IsSome(record)
    /\ snap = None
    /\ snap' = Some(From(record[1]))
    /\ origin' = "from"
    /\ UNCHANGED <<record, builder, given, out>>

\* The log call returns: the handle is gone, the snapshot is kept.
Return ==
    /\ IsSome(record)
    /\ IsSome(snap)
    /\ out = None
    /\ record' = None
    /\ UNCHANGED <<snap, origin, builder, given, out>>

\* serde / bincode decoding: a snapshot that no handle was the source of.
Deserialize ==
    /\ record = None
    /\ snap = None
    /\ \E s \in Snapshots : snap' = Some(s)
    /\ origin' = "deserialized"
    /\ UNCHANGED <<record, builder, given, out>>

\* Assignment to one of the public fields of an owned snapshot.
AssignField ==
    /\ record = None
    /\ IsSome(snap)
    /\ out = None
    /\ \E f \in Fields : \E v \in FieldValues(f) :
          /\ v # snap[1][f]
          /\ snap' = Some([snap[1] EXCEPT ![f] = v])
    /\ origin' = "assigned"
    /\ UNCHANGED <<record, builder, given, out>>

\* The builder comes from an earlier use instead of from Record::builder().
PriorUse ==
    /\ builder = RecordBuilderNew
    /\ out = None
    /\ builder' \in UsedBuilders
    /\ UNCHANGED <<record, snap, origin, given, out>>

\* A mutant of the macro's step: the snapshot is moved out of.
IntoLogRecordConsuming ==
    /\ IsSome(snap)
    /\ out = None
    /\ builder' = into_log_record(builder, snap[1])
    /\ given' = Some(builder)
    /\ out' = Some(build(builder'))
    /\ snap' = None
    /\ UNCHANGED <<record, origin>>

\* into_log_record!(builder, snap), as the argument of a sink call.
IntoLogRecord ==
    /\ IsSome(snap)
    /\ out = None
    /\ builder' = into_log_record(builder, snap[1])
    /\ given' = Some(builder)
    /\ out' = Some(build(builder'))
    /\ UNCHANGED <<record, snap, origin>>

\* The sink call returns; the handle and the builder it borrows end with it.
SinkLog ==
    /\ IsSome(out)
    /\ out' = None
    /\ given' = None
    /\ builder' = RecordBuilderNew
    /\ UNCHANGED <<record, snap, origin>>

\* The sink is itself a capturing one: it snapshots the handle it is handed.
ReSnapshot ==
    /\ IsSome(out)
    /\ snap' = Some(From(out[1]))
    /\ origin' = "resnapshot"
    /\ out' = None
    /\ given' = None
    /\ builder' = RecordBuilderNew
    /\ UNCHANGED record

Next ==
    \/ FromRecord
    \/ Return
    \/ Deserialize
    \/ AssignField
    \/ PriorUse
    \/ IntoLogRecord
    \/ SinkLog
    \/ ReSnapshot

Spec == Init /\ [][Next]_vars

----------------------------------------------------------------------------
\* The properties

\* The five canonical labels, written out.
CanonicalLabels ==
    { <<"E","R","R","O","R">>, <<"W","A","R","N">>, <<"I","N","F","O">>,
      <<"D","E","B","U","G">>, <<"T","R","A","C","E">> }

\* The label of each severity, written out.
LabelOf(l) ==
    CASE l = "Error" -> <<"E","R","R","O","R">>
      [] l = "Warn"  -> <<"W","A","R","N">>
      [] l = "Info"  -> <<"I","N","F","O">>
      [] l = "Debug" -> <<"D","E","B","U","G">>
      [] l = "Trace" -> <<"T","R","A","C","E">>

UpperOf(c) ==
    IF \E i \in DOMAIN LowerChars : LowerChars[i] = c
    THEN UpperChars[CHOOSE i \in DOMAIN LowerChars : LowerChars[i] = c]
    ELSE c

UpperStr(s) == [i \in 1..Len(s) |-> UpperOf(s[i])]

\* The six observable fields of two handles agree (the message as text).
Agree(h1, h2) ==
    /\ h1.level = h2.level
    /\ Format(h1.args) = Format(h2.args)
    /\ h1.target = h2.target
    /\ h1.module_path = h2.module_path
    /\ h1.file = h2.file
    /\ h1.line = h2.line

\* C1: a handle snapshotted with from and rehydrated with into_log_record!
\* comes back with the same severity, message text, target, module path, file
\* and line.
C1_RoundTrip ==
    (IsSome(out) /\ IsSome(record) /\ origin = "from")
        => Agree(out[1], record[1])

C1_Witness ==
    /\ IsSome(out) /\ IsSome(record) /\ origin = "from"
    /\ Len(record[1].args) > 1
    /\ Format(record[1].args) = Hello
    /\ record[1].level = "Debug"
    /\ IsSome(record[1].module_path) /\ record[1].file = None
    /\ IsSome(record[1].line)

\* C2 as stated: string_to_level gives Warn for every string that is not
\* exactly a canonical label, differently-cased spellings included.
C2_NotExactLabelIsWarn ==
    (IsSome(out) /\ snap[1].level \notin CanonicalLabels)
        => out[1].level = "Warn"

\* C2 as amended: string_to_level gives Warn for every string that matches no
\* canonical label when ASCII case is ignored ("", "OFF", "WARNING", ...).
C2_NoLabelUpToCaseIsWarn ==
    (IsSome(out) /\ UpperStr(snap[1].level) \notin CanonicalLabels)
        => out[1].level = "Warn"

C2_Witness ==
    /\ IsSome(out)
    /\ snap[1].level = <<"O","F","F">>
    /\ out[1].level = "Warn"

\* C3: string_to_level gives each canonical label its own severity, so the
\* label new stores for a severity L parses back to L.
C3_LabelParsesBack ==
    /\ \A l \in Levels : string_to_level(LabelOf(l)) = l
    /\ (IsSome(snap) /\ IsSome(record) /\ origin = "from")
          => /\ snap[1].level = LabelOf(record[1].level)
             /\ string_to_level(snap[1].level) = record[1].level

C3_Witness ==
    /\ IsSome(snap) /\ IsSome(record) /\ origin = "from"
    /\ record[1].level = "Trace"
    /\ snap[1].level = <<"T","R","A","C","E">>

\* C4: rehydration has no error path: whatever the level field holds, the
\* macro yields a handle; the severity is Warn when the level is not
\* recognized, and message text, target, module path, file and line are the
\* snapshot's.
C4_RehydrationTotal ==
    /\ (IsSome(snap) /\ out = None) =>
          build(into_log_record(builder, snap[1])).level \in Levels
    /\ IsSome(out) =>
          /\ out[1].level \in Levels
          /\ from_str(snap[1].level) = None => out[1].level = "Warn"
          /\ Format(out[1].args) = snap[1].args
          /\ out[1].target = snap[1].target
          /\ out[1].module_path = snap[1].module_path
          /\ out[1].file = snap[1].file
          /\ out[1].line = snap[1].line

C4_Witness ==
    /\ IsSome(out)
    /\ origin = "assigned"
    /\ snap[1].level = <<"W","A","R","N","I","N","G">>
    /\ out[1].level = "Warn"
    /\ IsSome(out[1].file) /\ out[1].target # <<>>

\* C5: from copies module_path, file and line each absent when absent and
\* present with the same value when present, and copies target as it is.
C5_OptionalityPassthrough ==
    (IsSome(snap) /\ IsSome(record) /\ origin = "from") =>
        /\ \A f \in {"module_path", "file", "line"} :
              /\ snap[1][f] = None <=> record[1][f] = None
              /\ IsSome(record[1][f]) =>
                    IsSome(snap[1][f]) /\ snap[1][f][1] = record[1][f][1]
        /\ snap[1].target = record[1].target

C5_Witness ==
    /\ IsSome(snap) /\ IsSome(record) /\ origin = "from"
    /\ record[1].module_path = None
    /\ IsSome(record[1].file)
    /\ record[1].line = None
    /\ snap[1].module_path = None /\ IsSome(snap[1].file)

\* C6 as stated: the level field of a snapshot is a canonical label in every
\* state, assignment to the public field and decoding included.
C6_LevelAlwaysCanonical ==
    IsSome(snap) => snap[1].level \in CanonicalLabels

\* C6 as amended: the level field is a canonical label in every snapshot as
\* new or from built it, until the field is assigned or the value decoded.
C6_LevelCanonicalAsBuilt ==
    (IsSome(snap) /\ origin \in {"from", "resnapshot"})
        => snap[1].level \in CanonicalLabels

C6_Witness ==
    /\ IsSome(snap) /\ origin = "from"
    /\ record = None
    /\ snap[1].level = <<"D","E","B","U","G">>

\* C7: the snapshots of two handles are equal exactly when the handles agree
\* on severity, message text, target, module path, file and line, and equal
\* snapshots feed a hasher the same.
C7_EqualIffAgree ==
    (IsSome(snap) /\ IsSome(record) /\ origin = "from" /\ out = None
        /\ builder = RecordBuilderNew) =>
        \A h \in Records :
            /\ SnapEq(From(h), snap[1]) <=> Agree(h, record[1])
            /\ Agree(h, record[1]) => HashFeed(From(h)) = HashFeed(snap[1])
            /\ HashFeed(From(h)) = HashFeed(snap[1]) => SnapEq(From(h), snap[1])

C7_Witness ==
    /\ IsSome(snap) /\ IsSome(record) /\ origin = "from" /\ out = None
    /\ builder = RecordBuilderNew
    /\ \E h \in Records : h # record[1] /\ SnapEq(From(h), snap[1])
    /\ \E h \in Records : h.line # record[1].line
                            /\ [h EXCEPT !.line = record[1].line] = record[1]

\* C8 as stated: once from has built it, no operation on a snapshot changes a
\* field of it.
C8_NeverChanges ==
    [][(IsSome(snap) /\ origin = "from" /\ ~ReSnapshot) => snap' = snap]_vars

\* C8 as amended: once built, a snapshot's fields change only by assignment to
\* its public fields; rehydration and everything else only read it.
C8_OnlyAssignmentChanges ==
    [][(IsSome(snap) /\ ~AssignField /\ ~ReSnapshot) => snap' = snap]_vars

C8_Witness ==
    /\ IsSome(out) /\ IsSome(snap)
    /\ origin = "from"

\* C9: the handle the macro yields depends on the snapshot alone: every
\* builder, whatever an earlier use left set on it, yields the same six fields.
C9_BuilderStateIrrelevant ==
    IsSome(out) =>
        /\ \A b \in UsedBuilders \cup {RecordBuilderNew} :
              build(into_log_record(b, snap[1])) = out[1]
        /\ builder = out[1]

C9_Witness ==
    /\ IsSome(out)
    /\ IsSome(given[1].module_path) /\ IsSome(given[1].file)
    /\ IsSome(given[1].line)
    /\ snap[1].module_path = None /\ snap[1].file = None
    /\ snap[1].line = None
    /\ out[1].module_path = None

\* C10: snapshotting the rehydrated handle gives the snapshot back with its
\* level replaced by string_to_level(level).as_str(); that is the same
\* snapshot exactly when the level was a canonical label, and a second round
\* changes nothing.
C10_ReverseRoundTrip ==
    [][ReSnapshot =>
          /\ snap' = Some([snap[1] EXCEPT
                             !.level = as_str(string_to_level(snap[1].level))])
          /\ snap' = snap <=> snap[1].level \in CanonicalLabels
          /\ origin = "resnapshot" => snap' = snap]_vars

C10_Witness ==
    /\ origin = "resnapshot"
    /\ IsSome(out)
    /\ snap[1].level = <<"W","A","R","N">>

====
